---- MODULE Spec2Model ----
(***************************************************************************)
(* Model of the untrusted-event ingestion paths of                         *)
(* functions/index.paystack_only.backup.js: the Paystack webhook           *)
(* (paystackWebhook, the later of the two definitions, which is the one    *)
(* the module exports) and the tracking-session ping channel               *)
(* (createTrackingSession, trackPing).                                     *)
(*                                                                         *)
(* Every `await` of a handler is a scheduling point, so each handler is a  *)
(* small process whose steps are the code between two awaits.              *)
(***************************************************************************)
EXTENDS Integers, Sequences, FiniteSets, TLC

(***************************************************************************)
(* JavaScript values                                                       *)
(***************************************************************************)
\* null / undefined where a string is expected
Null == "<null>"
\* null where a number is expected (days, timestamps)
NullInt == 0 - 1
\* NaN, the result of Number() on a non-numeric string
NaN == 0 - 2

\* A string received from the wire: its trimmed lower-case text, whether the
\* wire form had upper-case letters, and whether it had surrounding blanks.
Str(t, cased, padded) == [txt |-> t, cased |-> cased, padded |-> padded]
Plain(t) == Str(t, FALSE, FALSE)
Undefined == Str(Null, FALSE, FALSE)

\* JS truthiness of a string-or-undefined value: only undefined and "" are falsy
\* (a blank-only string is truthy).
Truthy(s) == s # Undefined /\ ~(s.txt = "" /\ ~s.padded)

\* String(s || "").trim().toLowerCase(), as the exact resulting text
TrimLower(s) == IF Truthy(s) THEN s.txt ELSE ""

\* Number(raw || 0) for a raw JSON amount: a number, a numeric string, a
\* non-numeric string, or absent.
NumAmt(v) == [t |-> "num", v |-> v]
StrAmt(v) == [t |-> "str", v |-> v]
BadAmt == [t |-> "nan", v |-> 0]
NoAmt == [t |-> "undef", v |-> 0]
\* JSON null and the empty string: Number(null) and Number("") are 0
NullAmt == [t |-> "null", v |-> 0]
EmptyAmt == [t |-> "empty", v |-> 0]
ToNumber(raw) ==
  CASE raw.t = "num" -> raw.v
    [] raw.t = "str" -> raw.v
    [] raw.t = "nan" -> NaN
    [] OTHER -> 0

(***************************************************************************)
(* Helpers of the source                                                   *)
(***************************************************************************)
normalizeEmail(email) == TrimLower(email)

\* crypto.createHmac("sha512", key).update(raw).digest(): an ideal keyed
\* hash, injective in the key and the message.
Hmac(key, raw) == [key |-> key, msg |-> raw]

\* A hex string: the bytes it encodes and the letter case it is written in.
Hex(dig, form) == [present |-> TRUE, dig |-> dig, form |-> form]

\* Buffer.from(s, "hex"): hex digits decode the same in either letter case.
HexDecode(h) == h.dig

timingSafeEqualHexNoCheck(a, b) == TRUE
timingSafeEqualHex(a, b) == HexDecode(a) = HexDecode(b)

(***************************************************************************)
(* The signature check on the characters of the header (lines 231-240,     *)
(* 279-288)                                                                *)
(***************************************************************************)
\* Bytes and characters are numbers 0..255; a raw body is a sequence of
\* bytes, a header value a sequence of character codes.
Pow2(k) == IF k = 0 THEN 1 ELSE IF k = 1 THEN 2 ELSE IF k = 2 THEN 4
           ELSE IF k = 3 THEN 8 ELSE IF k = 4 THEN 16 ELSE IF k = 5 THEN 32
           ELSE IF k = 6 THEN 64 ELSE 128

\* The bytes of crypto.createHmac("sha512", key).update(raw).digest(): the
\* ideal keyed hash Hmac written out as bytes, one byte for the key and
\* the message after it, so that different keys or messages give different
\* digests of the same length as long as the messages have the same length.
KeyByte(key) == IF key = "sk_live" THEN 171 ELSE 205
DigestBytes(h) == <<KeyByte(h.key)>> \o h.msg

\* .digest("hex"): two lower-case hex digits per byte
HexDigit(n) == IF n < 10 THEN 48 + n ELSE 87 + n
HexEncode(b) ==
  [i \in 1..(2 * Len(b)) |->
     IF i % 2 = 1 THEN HexDigit(b[(i + 1) \div 2] \div 16)
     ELSE HexDigit(b[i \div 2] % 16)]

\* Buffer.from(s, "hex"): digits in either letter case; decoding stops at
\* the first pair that has a character which is no hex digit, and an odd
\* last character is dropped.
HexVal(c) ==
  IF c >= 48 /\ c <= 57 THEN c - 48
  ELSE IF c >= 97 /\ c <= 102 THEN c - 87
  ELSE IF c >= 65 /\ c <= 70 THEN c - 55
  ELSE 0 - 1
GoodPair(s, i) == HexVal(s[2 * i - 1]) >= 0 /\ HexVal(s[2 * i]) >= 0
DecodedLen(s) ==
  Cardinality({ k \in 1..(Len(s) \div 2) : \A i \in 1..k : GoodPair(s, i) })
BufferFromHex(s) ==
  [i \in 1..DecodedLen(s) |-> 16 * HexVal(s[2 * i - 1]) + HexVal(s[2 * i])]

\* timingSafeEqualHex on header characters (lines 231-240)
timingSafeEqualHexChars(a, b) ==
  /\ Len(BufferFromHex(a)) = Len(BufferFromHex(b))
  /\ BufferFromHex(a) = BufferFromHex(b)

(***************************************************************************)
(* The webhook's classifier (lines 313-335)                                *)
(***************************************************************************)
AMT_MONTHLY == 100 * 100
AMT_YEARLY == 900 * 100
AMT_LIFETIME == 5000 * 100
AMT_COMMUNITY == 5 * 100

PlanTags == {"monthly", "yearly", "lifetime", "community"}

MetaPlan(raw) == TrimLower(raw)

PlanDays(plan) ==
  IF plan = "monthly" THEN 30 ELSE IF plan = "yearly" THEN 365 ELSE NullInt

ByAmount(amount) ==
  IF amount = AMT_MONTHLY THEN [plan |-> "monthly", days |-> 30]
  ELSE IF amount = AMT_YEARLY THEN [plan |-> "yearly", days |-> 365]
  ELSE IF amount = AMT_LIFETIME THEN [plan |-> "lifetime", days |-> NullInt]
  ELSE IF amount = AMT_COMMUNITY THEN [plan |-> "community", days |-> NullInt]
  ELSE [plan |-> "pending", days |-> NullInt]

ClassifyAmountFirst(metaPlan, amount) ==
  IF ByAmount(amount).plan # "pending" THEN ByAmount(amount)
  ELSE IF metaPlan \in PlanTags
       THEN [plan |-> metaPlan, days |-> PlanDays(metaPlan)]
       ELSE [plan |-> "pending", days |-> NullInt]
Classify(metaPlan, amount) ==
  IF metaPlan # ""
  THEN IF metaPlan \in PlanTags
       THEN [plan |-> metaPlan, days |-> PlanDays(metaPlan)]
       ELSE [plan |-> "pending", days |-> NullInt]
  ELSE ByAmount(amount)

(***************************************************************************)
(* Bounds and input sets                                                   *)
(***************************************************************************)
\* Number of webhook deliveries the provider makes in one run
NumDeliveries == 2
\* Date.now() at the start of a run. Time is counted in seconds: every
\* millisecond quantity of the source is divided by 1000 (365 days in
\* milliseconds do not fit TLC's 32-bit integers).
StartTime == 1

\* Number of trackPing requests in one run
NumPings == 2
\* Number of tracking sessions issued in one run
MaxSessions == 2
\* Number of times the clock advances in one run
MaxTicks == 2
\* Number of initPaystackCheckout requests in one run
NumCheckouts == 2

Deliveries == 1..NumDeliveries
Pings == 1..NumPings
Checkouts == 1..NumCheckouts
UserIds == {1, 2}
References == {"R1", "R2"}

\* 24 * 60 * 60 * 1000 ms (lines 356, 1006)
DaySecs == 24 * 60 * 60

\* The key the provider signs with, and a key it does not sign with
ProviderKey == "sk_live"
ForgedKey == "sk_forged"

Body(ev, ref, email, amt, meta) ==
  [event |-> ev, reference |-> ref, email |-> email, amount |-> amt,
   metaPlan |-> meta]

\* Event bodies of the concurrent specification
Bodies ==
  { Body("charge.success", ref, Plain(e), NumAmt(a), Undefined) :
      ref \in References \cup {Null}, e \in {"a@x.com", "n@x.com"},
      a \in {10000, 123} }
  \cup { Body("charge.failed", "R1", Plain("a@x.com"), NumAmt(10000), Undefined),
         Body("charge.success", "R1", Undefined, NumAmt(10000), Undefined) }

\* Event bodies of the sequential specification: also wire forms that the
\* handler normalises (letter case, blanks, numeric strings, empty reference)
BodiesWide ==
  Bodies
  \cup { Body("charge.success", "R1", Str("a@x.com", TRUE, TRUE), StrAmt(10000),
              Undefined),
         Body("charge.success", "R2", Plain("a@x.com"), NumAmt(10000),
              Str("yearly", TRUE, FALSE)),
         Body("charge.success", "R2", Plain("a@x.com"), NumAmt(10000),
              Plain("gold")),
         Body("charge.success", "R2", Plain("a@x.com"), NoAmt,
              Plain("lifetime")),
         Body("charge.success", "", Plain("a@x.com"), NumAmt(90000), Undefined),
         Body("charge.success", "R1", Str("", FALSE, TRUE), BadAmt, Undefined),
         Body("charge.failed", "R2", Plain("b@x.com"), NumAmt(90000),
              Plain("yearly")),
         Body("charge.failed", Null, Plain("a@x.com"), NumAmt(10000), Undefined),
         Body("transfer.success", "R1", Plain("a@x.com"), NumAmt(500000),
              Plain("lifetime")),
         Body("Charge.Success", "R1", Plain("a@x.com"), NumAmt(10000),
              Undefined) }

NoSig == [present |-> FALSE, dig |-> Hmac("", Body("", "", Undefined, NoAmt, Undefined)),
          form |-> "lower"]

Request(m, sig, b) == [method |-> m, sig |-> sig, body |-> b]
NoReq == Request("", NoSig, Body("", "", Undefined, NoAmt, Undefined))

\* Correctly signed POSTs of every body of B; and, for one body that would
\* change a user when accepted: a GET, a POST without the signature header,
\* one signed with another key, one carrying the signature of another body,
\* and one whose valid signature is written in upper-case hex.
RequestsOf(B) ==
  LET victim == Body("charge.success", "R1", Plain("a@x.com"), NumAmt(10000),
                     Undefined)
      other == Body("charge.success", "R2", Plain("a@x.com"), NumAmt(10000),
                    Undefined)
  IN  { Request("POST", Hex(Hmac(ProviderKey, b), "lower"), b) : b \in B }
      \cup { Request("GET", Hex(Hmac(ProviderKey, victim), "lower"), victim),
             Request("POST", NoSig, victim),
             Request("POST", Hex(Hmac(ForgedKey, victim), "lower"), victim),
             Request("POST", Hex(Hmac(ProviderKey, other), "lower"), victim),
             Request("POST", Hex(Hmac(ProviderKey, victim), "upper"), victim) }

\* A body that is not an event envelope (req.body of line 290 has no event
\* field: {}, a JSON scalar, or a body that was not parsed as JSON)
MalformedBody == Body(Null, Null, Undefined, NoAmt, Undefined)

Requests == RequestsOf(Bodies)
\* The requests of the specification with store failures: the same, and the
\* correctly signed POST of a malformed body
RequestsHook ==
  Requests
  \cup {Request("POST", Hex(Hmac(ProviderKey, MalformedBody), "lower"),
                MalformedBody)}
RequestsWide == RequestsOf(BodiesWide)

(***************************************************************************)
(* State                                                                   *)
(***************************************************************************)
VARIABLES
  now,              \* Date.now() / the store's server time
  secretCfg,        \* PAYSTACK_SECRET_KEY.value(); "" when not provisioned
  paystack_events,  \* the ledger collection: reference -> document
  users,            \* the users collection: uid -> document
  req,              \* delivery -> the request it carries
  pc,               \* delivery -> where its handler stands
  userRef,          \* delivery -> userSnap.docs[0].ref
  updates,          \* delivery -> the updates object built at lines 346-360
  resp,             \* delivery -> the response sent
  storeOps,         \* delivery -> number of store operations it has issued
  wrote,            \* delivery -> whether it has written the user record
  ledgerWrote,      \* delivery -> whether it has written a ledger document
  failed,           \* delivery -> whether a store operation of it has thrown
  sessions,         \* the trackingSessions documents of all organisations
  locations,        \* the location-history rows, in the order they were added
  lastLocation,     \* <<orgId, studentId>> -> the student's lastLocation field
  ping,             \* ping -> the request body it carries
  ppc,              \* ping -> where its handler stands
  sess,             \* ping -> q.docs[0].data() of line 1055
  checkedAt,        \* ping -> Date.now() when line 1066 was evaluated
  presp,            \* ping -> the response sent
  created,          \* number of tracking sessions issued so far
  issued,           \* the responses createTrackingSession has returned
  cin,              \* the classifier's input: raw metadata plan, raw amount
  cout,             \* the classifier's result for cin
  vin,              \* the verifier's input: signed body, change made in transit
  vout,             \* the result of the signature check for vin
  creq,             \* checkout -> the caller's e-mail and the plan asked for
  cpc,              \* checkout -> where initPaystackCheckout stands
  cpay,             \* checkout -> the payload sent to the provider
  calls,            \* checkout -> number of requests sent to the provider
  cres,             \* checkout -> what the caller is answered
  swState,          \* the service worker's lifecycle state
  cacheNames,       \* the names caches.keys() returns
  cache,            \* the entries of the kb-offline-v3 cache
  freq,             \* the request of the last fetch event
  fans              \* how that request was answered

trackVars == <<sessions, locations, lastLocation, ping, ppc, sess, checkedAt,
               presp, created, issued>>
payVars == <<creq, cpc, cpay, calls, cres>>
swVars == <<swState, cacheNames, cache, freq, fans>>
classVars == <<cin, cout, vin, vout, payVars, swVars>>
vars == <<now, secretCfg, paystack_events, users, req, pc, userRef, updates,
          resp, storeOps, wrote, ledgerWrote, failed, sessions, locations,
          lastLocation, ping, ppc, sess, checkedAt, presp, created, issued,
          cin, cout, vin, vout, creq, cpc, cpay, calls, cres, swState,
          cacheNames, cache, freq, fans>>
webVars == <<secretCfg, paystack_events, users, req, pc, userRef, updates,
             resp, storeOps, wrote, ledgerWrote, failed>>

NoDoc == [exists |-> FALSE, createdAt |-> NullInt, email |-> "", amount |-> 0]
NoResp == [status |-> 0, text |-> ""]
Resp(status, text) == [status |-> status, text |-> text]
NoUpdates ==
  [plan |-> Null, status |-> Null, lastPaymentRef |-> Null,
   updatedAt |-> NullInt, trialEndsAt |-> NullInt,
   subscriptionEndsAt |-> NullInt]

\* A user document as createOrgAndAdmin / joinOrgWithCode leave it (lines
\* 466-477, 509-520), plus the trial expiry the projector clears.
NewUser(email, trial) ==
  [email |-> email, role |-> "parent", plan |-> Null, status |-> Null,
   lastPaymentRef |-> Null, subscriptionEndsAt |-> NullInt,
   updatedAt |-> StartTime, trialEndsAt |-> trial]

WebhookInit ==
  /\ paystack_events = [r \in References |-> NoDoc]
  /\ users = [u \in UserIds |->
               IF u = 1 THEN NewUser("a@x.com", StartTime + 7 * DaySecs)
               ELSE NewUser("b@x.com", NullInt)]
  /\ req = [d \in Deliveries |-> NoReq]
  /\ pc = [d \in Deliveries |-> "idle"]
  /\ userRef = [d \in Deliveries |-> 0]
  /\ updates = [d \in Deliveries |-> NoUpdates]
  /\ resp = [d \in Deliveries |-> NoResp]
  /\ storeOps = [d \in Deliveries |-> 0]
  /\ wrote = [d \in Deliveries |-> FALSE]
  /\ ledgerWrote = [d \in Deliveries |-> FALSE]
  /\ failed = [d \in Deliveries |-> FALSE]

(***************************************************************************)
(* paystackWebhook (lines 267-371)                                         *)
(***************************************************************************)
\* Line 295 with a fixed key in place of null for an absent reference
ReferenceDefaulted(r) ==
  IF r.body.reference = "" \/ r.body.reference = Null THEN "R1"
  ELSE r.body.reference

\* Locals of the handler, as functions of the request (lines 294-297, 320)
Reference(r) ==
  IF r.body.reference = "" \/ r.body.reference = Null THEN Null
  ELSE r.body.reference
Email(r) == normalizeEmail(r.body.email)
Amount(r) == ToNumber(r.body.amount)
Classified(r) == Classify(MetaPlan(r.body.metaPlan), Amount(r))

\* PreStore without the event-type check of line 292
PreStoreAnyEvent(r) ==
  IF r.method # "POST" THEN Resp(405, "Method Not Allowed")
  ELSE IF secretCfg = "" THEN Resp(500, "Missing secret")
  ELSE IF ~r.sig.present THEN Resp(400, "Missing signature")
  ELSE IF ~timingSafeEqualHex(Hex(Hmac(secretCfg, r.body), "lower"), r.sig)
       THEN Resp(400, "Invalid signature")
  ELSE IF Email(r) = "" THEN Resp(200, "No email")
  ELSE NoResp

\* Lines 274-299: everything the handler decides before its first await.
\* NoResp means every gate has passed.
PreStore(r) ==
  IF r.method # "POST" THEN Resp(405, "Method Not Allowed")
  ELSE IF secretCfg = "" THEN Resp(500, "Missing secret")
  ELSE IF ~r.sig.present THEN Resp(400, "Missing signature")
  ELSE IF ~timingSafeEqualHex(Hex(Hmac(secretCfg, r.body), "lower"), r.sig)
       THEN Resp(400, "Invalid signature")
  ELSE IF r.body.event # "charge.success" THEN Resp(200, "Ignored")
  ELSE IF Email(r) = "" THEN Resp(200, "No email")
  ELSE NoResp

\* exists.exists of line 305, read from the snapshot of line 304
DocExistsNever(ref) == FALSE
DocExists(ref) == paystack_events[ref].exists

\* The query of line 338: the documents whose email field equals `email`
\* (limit(1) returns the first in document-id order)
MatchingUsers(email) == { u \in UserIds : users[u].email = email }
FirstUser(email) ==
  CHOOSE u \in MatchingUsers(email) : \A v \in MatchingUsers(email) : u <= v

\* Lines 346-360
StatusAlwaysActive(plan) == "active"
Status(plan) == IF plan = "pending" THEN "inactive" ELSE "active"

EndsAt(days) ==
  IF days # NullInt /\ days # 0 THEN now + days * DaySecs ELSE NullInt

Updates(r) ==
  [plan |-> Classified(r).plan,
   status |-> Status(Classified(r).plan),
   lastPaymentRef |-> Reference(r),
   updatedAt |-> now,
   trialEndsAt |-> NullInt,
   subscriptionEndsAt |-> EndsAt(Classified(r).days)]

\* set(updates) without the merge option: the fields not in updates are lost
MergeReplacing(doc, upd) ==
  [doc EXCEPT !.plan = upd.plan, !.status = upd.status,
              !.lastPaymentRef = upd.lastPaymentRef,
              !.updatedAt = upd.updatedAt, !.trialEndsAt = upd.trialEndsAt,
              !.subscriptionEndsAt = upd.subscriptionEndsAt,
              !.email = Null, !.role = Null]

\* A write that keeps the stored expiry when it is the later one
MergeKeepingLaterExpiry(doc, upd) ==
  [doc EXCEPT !.plan = upd.plan, !.status = upd.status,
              !.lastPaymentRef = upd.lastPaymentRef,
              !.updatedAt = upd.updatedAt, !.trialEndsAt = upd.trialEndsAt,
              !.subscriptionEndsAt =
                 IF doc.subscriptionEndsAt > upd.subscriptionEndsAt
                 THEN doc.subscriptionEndsAt
                 ELSE upd.subscriptionEndsAt]

\* userRef.set(updates, {merge: true}) of line 362
Merge(doc, upd) ==
  [doc EXCEPT !.plan = upd.plan, !.status = upd.status,
              !.lastPaymentRef = upd.lastPaymentRef,
              !.updatedAt = upd.updatedAt, !.trialEndsAt = upd.trialEndsAt,
              !.subscriptionEndsAt = upd.subscriptionEndsAt]

Finish(d, response) ==
  /\ resp' = [resp EXCEPT ![d] = response]
  /\ pc' = [pc EXCEPT ![d] = "done"]

\* Lines 272-302: the request arrives and runs to its first await.
WebhookReceive(d, r) ==
  /\ pc[d] = "idle"
  /\ req' = [req EXCEPT ![d] = r]
  /\ IF PreStore(r) # NoResp
     THEN Finish(d, PreStore(r))
     ELSE /\ pc' = [pc EXCEPT ![d] =
                      IF Reference(r) # Null THEN "ledgerGet" ELSE "userQuery"]
          /\ UNCHANGED resp
  /\ UNCHANGED <<now, secretCfg, paystack_events, users, userRef, updates,
                 storeOps, wrote, ledgerWrote, failed>>
  /\ UNCHANGED <<trackVars, classVars>>

\* Lines 303-305: await refDoc.get(), then the duplicate check
LedgerGet(d) ==
  /\ pc[d] = "ledgerGet"
  /\ storeOps' = [storeOps EXCEPT ![d] = @ + 1]
  /\ IF DocExists(Reference(req[d]))
     THEN Finish(d, Resp(200, "Duplicate"))
     ELSE /\ pc' = [pc EXCEPT ![d] = "ledgerSet"]
          /\ UNCHANGED resp
  /\ UNCHANGED <<now, secretCfg, paystack_events, users, req, userRef,
                 updates, wrote, ledgerWrote, failed>>
  /\ UNCHANGED <<trackVars, classVars>>

\* Lines 306-310: await refDoc.set({createdAt, email, amount})
LedgerSet(d) ==
  /\ pc[d] = "ledgerSet"
  /\ storeOps' = [storeOps EXCEPT ![d] = @ + 1]
  /\ paystack_events' =
       [paystack_events EXCEPT ![Reference(req[d])] =
          [exists |-> TRUE, createdAt |-> now, email |-> Email(req[d]),
           amount |-> Amount(req[d])]]
  /\ ledgerWrote' = [ledgerWrote EXCEPT ![d] = TRUE]
  /\ pc' = [pc EXCEPT ![d] = "userQuery"]
  /\ UNCHANGED <<now, secretCfg, users, req, userRef, updates, resp, wrote,
                 failed>>
  /\ UNCHANGED <<trackVars, classVars>>

\* Lines 313-360: classification, await of the user query, the updates object
UserQuery(d) ==
  /\ pc[d] = "userQuery"
  /\ storeOps' = [storeOps EXCEPT ![d] = @ + 1]
  /\ IF MatchingUsers(Email(req[d])) = {}
     THEN /\ Finish(d, Resp(200, "No matching user"))
          /\ UNCHANGED <<userRef, updates>>
     ELSE /\ userRef' = [userRef EXCEPT ![d] = FirstUser(Email(req[d]))]
          /\ updates' = [updates EXCEPT ![d] = Updates(req[d])]
          /\ pc' = [pc EXCEPT ![d] = "userSet"]
          /\ UNCHANGED resp
  /\ UNCHANGED <<now, secretCfg, paystack_events, users, req, wrote,
                 ledgerWrote, failed>>
  /\ UNCHANGED <<trackVars, classVars>>

\* Lines 362-365: await userRef.set(updates, {merge: true}), then 200 OK
UserSet(d) ==
  /\ pc[d] = "userSet"
  /\ storeOps' = [storeOps EXCEPT ![d] = @ + 1]
  /\ users' = [users EXCEPT ![userRef[d]] = Merge(@, updates[d])]
  /\ wrote' = [wrote EXCEPT ![d] = TRUE]
  /\ Finish(d, Resp(200, "OK"))
  /\ UNCHANGED <<now, secretCfg, paystack_events, req, userRef, updates,
                 ledgerWrote, failed>>
  /\ UNCHANGED <<trackVars, classVars>>

\* Lines 366-369: the store operation the handler is waiting for (the get
\* of line 304, the set of line 306, the query of line 338 or the set of
\* line 362) throws; the operation has no effect and the catch block answers
\* 500.
StoreFail(d) ==
  /\ pc[d] \in {"ledgerGet", "ledgerSet", "userQuery", "userSet"}
  /\ storeOps' = [storeOps EXCEPT ![d] = @ + 1]
  /\ failed' = [failed EXCEPT ![d] = TRUE]
  /\ Finish(d, Resp(500, "Server error"))
  /\ UNCHANGED <<now, secretCfg, paystack_events, users, req, userRef,
                 updates, wrote, ledgerWrote>>
  /\ UNCHANGED <<trackVars, classVars>>

(***************************************************************************)
(* Tracking sessions: createTrackingSession (lines 986-1024)               *)
(***************************************************************************)
\* The clock advances in steps of 24 hours
TickSecs == 24 * 60 * 60
\* 24 * 60 * 60 * 1000 ms of line 1006
SessionTtl == 24 * 60 * 60

\* orgs/{orgId}/students/{studentId} documents that exist
Students == { <<"o1", "s1">>, <<"o2", "s2">> }
OrgOrder(o) == IF o = "o1" THEN 1 ELSE 2

\* Authenticated callers: users/{uid} with orgId and role, and the children
\* linked under users/{uid}/children
Callers ==
  { [uid |-> "ua", orgId |-> "o1", role |-> "admin", children |-> {}],
    [uid |-> "up", orgId |-> "o2", role |-> "parent", children |-> {"s2"}],
    [uid |-> "uq", orgId |-> "o1", role |-> "parent", children |-> {}],
    [uid |-> "ux", orgId |-> "o1", role |-> "driver", children |-> {}] }

\* Results of randCode(5)
RandCodes == {"AAAAA"}
\* Results of randToken(32): 32 symbols of a 62-letter alphabet, a fresh
\* value at every call; the k-th call returns Token(k).
randToken(len, k) == [len |-> len, id |-> k]
Token(k) == randToken(32, k)
NoToken == randToken(0, 0)
Tokens == { Token(k) : k \in 1..MaxSessions }

\* "SID_" + Date.now().toString(36) + "_" + randCode(5)
SessionId(t, code) == [t |-> t, code |-> code]
UnknownSid == SessionId(0, "ZZZZZ")
NoSid == SessionId(0, "")

NoSession ==
  [sessionId |-> NoSid, token |-> NoToken, orgId |-> "", studentId |-> "",
   createdBy |-> "", createdAt |-> NullInt, expiresAt |-> NullInt,
   isActive |-> FALSE]

\* Lines 987-997: requireAuth, requireOrg and the role check
MayCreate(me, studentId) ==
  \/ me.role = "parent" /\ studentId \in me.children
  \/ me.role \in {"admin", "teacher"}

\* Line 1006
ExpiresAt(t) == t + SessionTtl

\* The kinds of character a session id ("SID_", base-36 digits, the
\* alphabet of line 178) and a token (the alphabet of line 185) are made of
SidChars == {"upper", "lower", "digit", "_"}
TokenChars == {"upper", "lower", "digit"}
\* encodeURIComponent leaves A-Z a-z 0-9 - _ . ! ~ * ' ( ) as they are and
\* writes every other character as %XX escapes
UriUnreserved ==
  {"upper", "lower", "digit", "-", "_", ".", "!", "~", "*", "'", "(", ")"}
encodeURIComponentAlways(v, chars) == [escaped |-> v]
encodeURIComponent(v, chars) ==
  IF chars \subseteq UriUnreserved THEN v ELSE [escaped |-> v]

\* Lines 1020-1021: the fragment parameters of trackerUrl
TrackerUrl(sid, tok) ==
  [sid |-> encodeURIComponent(sid, SidChars),
   tok |-> encodeURIComponent(tok, TokenChars)]

\* Lines 1003-1023: the document written; set() replaces a document that
\* has the same path orgs/{orgId}/trackingSessions/{sessionId}. The fields
\* studentName and createdByRole, which no handler reads, are left out.
\* The response is recorded with the number and the time of the call and
\* the student it was asked for.
createTrackingSession(me, studentId, code) ==
  /\ created < MaxSessions
  /\ MayCreate(me, studentId)
  /\ <<me.orgId, studentId>> \in Students
  /\ LET sid == SessionId(now, code)
         doc == [sessionId |-> sid, token |-> Token(created + 1), orgId |-> me.orgId,
                 studentId |-> studentId, createdBy |-> me.uid,
                 createdAt |-> now, expiresAt |-> ExpiresAt(now),
                 isActive |-> TRUE]
     IN  sessions' =
           { s \in sessions : ~(s.orgId = me.orgId /\ s.sessionId = sid) }
           \cup {doc}
  /\ issued' = issued \cup
       {[sessionId |-> SessionId(now, code),
         trackerUrl |-> TrackerUrl(SessionId(now, code), Token(created + 1)),
         expiresAt |-> ExpiresAt(now),
         call |-> created + 1, at |-> now, orgId |-> me.orgId,
         studentId |-> studentId]}
  /\ created' = created + 1
  /\ UNCHANGED <<now, webVars, classVars, locations, lastLocation, ping, ppc,
                 sess, checkedAt, presp>>

(***************************************************************************)
(* trackPing (lines 1026-1104)                                             *)
(***************************************************************************)
\* Number(x) without a default: an absent field is NaN; null and "" are 0
ToNumberStrict(raw) == IF raw.t = "undef" THEN NaN ELSE ToNumber(raw)

PingBody(m, sid, tok, lat, lng, acc) ==
  [method |-> m, sid |-> sid, tok |-> tok, lat |-> lat, lng |-> lng,
   acc |-> acc]
NoPing == PingBody("", NoSid, NoToken, NoAmt, NoAmt, NoAmt)

\* Requests a client can send in the current state. Well-formed ones carry
\* the id of any session issued so far or an id never issued, and any token
\* issued so far; malformed ones lack the id, the token or a coordinate, or
\* carry a non-numeric coordinate.
PingRequests ==
  { PingBody("POST", sid, tok, NumAmt(10), NumAmt(30), NumAmt(5)) :
      sid \in { s.sessionId : s \in sessions } \cup {UnknownSid},
      tok \in { Token(k) : k \in 1..created } \cup {Token(MaxSessions + 1)} }
  \cup { PingBody("GET", UnknownSid, Token(1), NumAmt(10), NumAmt(30), NumAmt(5)),
         PingBody("POST", NoSid, Token(1), NumAmt(10), NumAmt(30), NumAmt(5)),
         PingBody("POST", UnknownSid, NoToken, NumAmt(10), NumAmt(30), NumAmt(5)),
         PingBody("POST", UnknownSid, Token(1), NoAmt, NumAmt(30), NumAmt(5)),
         PingBody("POST", UnknownSid, Token(1), NumAmt(10), BadAmt, NoAmt) }

\* The same, and requests that name an issued session with its token while
\* a coordinate is null, the empty string or a non-numeric string.
PingRequestsWide ==
  PingRequests
  \cup { PingBody("POST", s.sessionId, s.token, lat, NumAmt(30), NumAmt(5)) :
           s \in sessions, lat \in {NullAmt, BadAmt} }
  \cup { PingBody("POST", s.sessionId, s.token, NumAmt(10), EmptyAmt,
                  NumAmt(5)) : s \in sessions }

\* Lines 1028-1047: what is decided before the session query
PrePing(r) ==
  IF r.method # "POST" THEN Resp(405, "POST only")
  ELSE IF r.sid = NoSid \/ r.tok = NoToken THEN Resp(400, "sid and tok required")
  ELSE IF ToNumberStrict(r.lat) = NaN \/ ToNumberStrict(r.lng) = NaN
       THEN Resp(400, "lat/lng invalid")
  ELSE NoResp

\* Line 1049 as a query without the sessionId filter
SessionsWithAnyId(sid) == sessions

\* Line 1049: the collection-group query, in document-path order
SessionsWithId(sid) == { s \in sessions : s.sessionId = sid }
FirstSession(sid) ==
  CHOOSE s \in SessionsWithId(sid) :
    \A t \in SessionsWithId(sid) : OrgOrder(s.orgId) <= OrgOrder(t.orgId)

\* A stored value that is no Timestamp: it has no toMillis, seconds or
\* _seconds (a date string, a plain number of milliseconds)
UnreadableTs == 0 - 3

\* Lines 217-225: 0 for a missing or zero value and for one that cannot
\* be read, else the Timestamp's instant
tsToMillis(ts) ==
  IF ts = NullInt \/ ts = 0 \/ ts = UnreadableTs THEN 0 ELSE ts

\* Line 1061
TokenOkAlways(stored, tok) == TRUE
TokenOk(stored, tok) == stored = tok

\* Lines 1065-1066
ExpiredNever(s) == FALSE
Expired(s) == tsToMillis(s.expiresAt) # 0 /\ now > tsToMillis(s.expiresAt)

\* The checks of SessionGate with the expiry check moved to the front
SessionGateExpiryFirst(s, tok) ==
  IF Expired(s) THEN Resp(403, "session expired")
  ELSE IF ~s.isActive THEN Resp(403, "session inactive")
  ELSE IF ~TokenOk(s.token, tok) THEN Resp(403, "bad token")
  ELSE NoResp

\* Lines 1057-1069 on the resolved session
SessionGate(s, tok) ==
  IF ~s.isActive THEN Resp(403, "session inactive")
  ELSE IF ~TokenOk(s.token, tok) THEN Resp(403, "bad token")
  ELSE IF Expired(s) THEN Resp(403, "session expired")
  ELSE NoResp

NoLoc ==
  [lat |-> NaN, lng |-> NaN, acc |-> NaN, sid |-> NoSid, updatedAt |-> NullInt,
   by |-> 0]

PingFinish(p, response) ==
  /\ presp' = [presp EXCEPT ![p] = response]
  /\ ppc' = [ppc EXCEPT ![p] = "done"]

\* Lines 1026-1049: the request arrives and runs to the session query
PingReceive(p, r) ==
  /\ ppc[p] = "idle"
  /\ ping' = [ping EXCEPT ![p] = r]
  /\ IF PrePing(r) # NoResp
     THEN PingFinish(p, PrePing(r))
     ELSE /\ ppc' = [ppc EXCEPT ![p] = "query"]
          /\ UNCHANGED presp
  /\ UNCHANGED <<now, webVars, classVars, sessions, locations, lastLocation,
                 sess, checkedAt, created, issued>>

\* Lines 1049-1083: the query returns; not-found, inactive, token, expiry
PingQuery(p) ==
  /\ ppc[p] = "query"
  /\ IF SessionsWithId(ping[p].sid) = {}
     THEN /\ PingFinish(p, Resp(404, "session not found"))
          /\ UNCHANGED <<sess, checkedAt>>
     ELSE LET s == FirstSession(ping[p].sid)
          IN  /\ sess' = [sess EXCEPT ![p] = s]
              /\ checkedAt' = [checkedAt EXCEPT ![p] = now]
              /\ IF SessionGate(s, ping[p].tok) # NoResp
                 THEN PingFinish(p, SessionGate(s, ping[p].tok))
                 ELSE /\ ppc' = [ppc EXCEPT ![p] = "add"]
                      /\ UNCHANGED presp
  /\ UNCHANGED <<now, webVars, classVars, sessions, locations, lastLocation,
                 ping, created, issued>>

\* PingAdd without the add of line 1085
PingAddSkipped(p) ==
  /\ ppc[p] = "add"
  /\ ppc' = [ppc EXCEPT ![p] = "set"]
  /\ UNCHANGED <<now, webVars, classVars, sessions, locations, lastLocation,
                 ping, sess, checkedAt, presp, created, issued>>

\* Line 1085: the history row is added (its document id is the ping's; the
\* ua field, which no handler reads, is left out)
PingAdd(p) ==
  /\ ppc[p] = "add"
  /\ locations' =
       Append(locations,
              [sid |-> ping[p].sid, orgId |-> sess[p].orgId,
               studentId |-> sess[p].studentId,
               lat |-> ToNumberStrict(ping[p].lat),
               lng |-> ToNumberStrict(ping[p].lng),
               acc |-> ToNumber(ping[p].acc), createdAt |-> now, by |-> p])
  /\ ppc' = [ppc EXCEPT ![p] = "set"]
  /\ UNCHANGED <<now, webVars, classVars, sessions, lastLocation, ping, sess,
                 checkedAt, presp, created, issued>>

\* PingSet that also writes the session document (marks it used up)
PingSetClosingSession(p) ==
  /\ ppc[p] = "set"
  /\ lastLocation' =
       [lastLocation EXCEPT ![<<sess[p].orgId, sess[p].studentId>>] =
          [lat |-> ToNumberStrict(ping[p].lat),
           lng |-> ToNumberStrict(ping[p].lng),
           acc |-> ToNumber(ping[p].acc), sid |-> ping[p].sid,
           updatedAt |-> now, by |-> p]]
  /\ sessions' =
       { IF s = sess[p] THEN [s EXCEPT !.isActive = FALSE] ELSE s :
           s \in sessions }
  /\ PingFinish(p, Resp(200, "ok"))
  /\ UNCHANGED <<now, webVars, classVars, locations, ping, sess, checkedAt,
                 created, issued>>

\* Lines 1087-1100: the snapshot is merged into the student document
PingSet(p) ==
  /\ ppc[p] = "set"
  /\ lastLocation' =
       [lastLocation EXCEPT ![<<sess[p].orgId, sess[p].studentId>>] =
          [lat |-> ToNumberStrict(ping[p].lat),
           lng |-> ToNumberStrict(ping[p].lng),
           acc |-> ToNumber(ping[p].acc), sid |-> ping[p].sid,
           updatedAt |-> now, by |-> p]]
  /\ PingFinish(p, Resp(200, "ok"))
  /\ UNCHANGED <<now, webVars, classVars, sessions, locations, ping, sess,
                 checkedAt, created, issued>>

\* Lines 1101-1103: the store operation the handler is waiting for (the
\* query of line 1049, the add of line 1085 or the set of line 1087) throws;
\* the operation has no effect and the catch block answers 500 with the
\* error's message.
PingFail(p) ==
  /\ ppc[p] \in {"query", "add", "set"}
  /\ PingFinish(p, Resp(500, "store error"))
  /\ UNCHANGED <<now, webVars, classVars, sessions, locations, lastLocation,
                 ping, sess, checkedAt, created, issued>>

\* A session document is deactivated. No handler of the source writes
\* isActive = false: the write comes from outside (an operator or another
\* client of the store), and trackPing reads what the store holds.
DeactivateSession(s) ==
  /\ s \in sessions
  /\ s.isActive
  /\ sessions' = (sessions \ {s}) \cup {[s EXCEPT !.isActive = FALSE]}
  /\ UNCHANGED <<now, webVars, classVars, locations, lastLocation, ping, ppc,
                 sess, checkedAt, presp, created, issued>>

\* Time passes
Tick ==
  /\ now < StartTime + MaxTicks * TickSecs
  /\ now' = now + TickSecs
  /\ UNCHANGED <<webVars, trackVars, classVars>>

(***************************************************************************)
(* The classifier applied to one event                                     *)
(***************************************************************************)
RawPlans ==
  {Undefined, Plain(""), Str("", FALSE, TRUE), Plain("gold"),
   Str("gold", TRUE, TRUE)}
  \cup { Str(t, c, pd) : t \in PlanTags, c \in BOOLEAN, pd \in BOOLEAN }
RawAmounts ==
  { NumAmt(a) : a \in {0, 500, 10000, 90000, 500000, 123, 10001} }
  \cup { StrAmt(10000), BadAmt, NoAmt }

NoClass == [plan |-> Null, days |-> NullInt]

\* Lines 297 and 313-335 on the event of cin
ClassifyEvent ==
  /\ cout = NoClass
  /\ cout' = Classify(MetaPlan(cin.metaPlan), ToNumber(cin.amount))
  /\ UNCHANGED <<now, webVars, trackVars, cin, vin, vout, payVars, swVars>>

(***************************************************************************)
(* initPaystackCheckout (lines 380-437) and paystackApi (lines 242-260)    *)
(***************************************************************************)
\* A value that is neither a number nor a string: a function or an object
ObjAmt == [t |-> "object", v |-> 0]

\* Line 391: String(req.data?.plan || "monthly").trim().toLowerCase()
CheckoutPlan(raw) == IF Truthy(raw) THEN raw.txt ELSE "monthly"

\* PRICES[plan] of lines 395-402: the price of an own key; for a key that
\* every object inherits ("constructor") the inherited function; undefined
\* for any other key
PRICES(plan) ==
  CASE plan = "monthly" -> NumAmt(100 * 100)
    [] plan = "yearly" -> NumAmt(900 * 100)
    [] plan = "lifetime" -> NumAmt(5000 * 100)
    [] plan = "community" -> NumAmt(5 * 100)
    [] plan = "constructor" -> ObjAmt
    [] OTHER -> NoAmt

\* !PRICES[plan] of line 402
PriceMissing(plan) ==
  PRICES(plan).t = "undef" \/ (PRICES(plan).t = "num" /\ PRICES(plan).v = 0)

\* JSON.stringify of the payload (line 251) leaves out a property whose
\* value is a function
JsonValue(x) == IF x.t = "object" THEN NoAmt ELSE x

\* Lines 413-424 as the provider receives them (callback_url, metadata.uid,
\* metadata.next and metadata.app, which the webhook does not read, are
\* left out)
Payload(email, plan, reference) ==
  [email |-> email, amount |-> JsonValue(PRICES(plan)), reference |-> reference,
   metaPlan |-> plan]
NoPayload == Payload("", "", Null)

\* "KBH_" + Date.now().toString(36) + "_" + randCode(6)
CheckoutReference(t) == <<"KBH", t>>

HttpsError(code) == [ok |-> FALSE, code |-> code, url |-> Null]
NoResult == [ok |-> FALSE, code |-> "", url |-> Null]

\* What the caller's account and request hold
CheckoutRequests ==
  [email : {Plain("a@x.com"), Str("b@x.com", TRUE, TRUE), Undefined},
   plan : {Undefined, Plain("monthly"), Str("yearly", TRUE, TRUE),
           Plain("lifetime"), Plain("community"), Plain("gold"),
           Str("", FALSE, TRUE), Plain("constructor")}]
NoCheckout == [email |-> Undefined, plan |-> Undefined]

\* Lines 384-427: the checks, the payload, and the request to the provider
\* going out (the fetch of line 245)
CheckoutStart(c, r) ==
  /\ cpc[c] = "idle"
  /\ creq' = [creq EXCEPT ![c] = r]
  /\ IF normalizeEmail(r.email) = ""
     THEN /\ cres' = [cres EXCEPT ![c] = HttpsError("failed-precondition")]
          /\ cpc' = [cpc EXCEPT ![c] = "done"]
          /\ UNCHANGED <<cpay, calls>>
     ELSE IF PriceMissing(CheckoutPlan(r.plan))
     THEN /\ cres' = [cres EXCEPT ![c] = HttpsError("invalid-argument")]
          /\ cpc' = [cpc EXCEPT ![c] = "done"]
          /\ UNCHANGED <<cpay, calls>>
     ELSE IF secretCfg = ""
     THEN /\ cres' = [cres EXCEPT ![c] = HttpsError("internal")]
          /\ cpc' = [cpc EXCEPT ![c] = "done"]
          /\ UNCHANGED <<cpay, calls>>
     ELSE /\ cpay' = [cpay EXCEPT ![c] =
                        Payload(normalizeEmail(r.email),
                                CheckoutPlan(r.plan), CheckoutReference(now))]
          /\ calls' = [calls EXCEPT ![c] = @ + 1]
          /\ cpc' = [cpc EXCEPT ![c] = "calling"]
          /\ UNCHANGED cres
  /\ UNCHANGED <<now, webVars, trackVars, cin, cout, vin, vout, swVars>>

\* What the provider call can come to: a response with an authorization
\* url, a 2xx response without one, a response with status false or a
\* non-2xx code, or no response (fetch rejects)
ProviderOutcomes == {"url", "no url", "status false", "http error", "no response"}

\* ProviderReply that sends the request once more when the call has failed
ProviderReplyRetrying(c, o) ==
  /\ cpc[c] = "calling"
  /\ IF o = "url"
     THEN /\ cres' = [cres EXCEPT ![c] =
                        [ok |-> TRUE, code |-> "", url |-> "authorization_url"]]
          /\ cpc' = [cpc EXCEPT ![c] = "done"]
          /\ UNCHANGED calls
     ELSE IF calls[c] < 2
     THEN /\ calls' = [calls EXCEPT ![c] = @ + 1]
          /\ UNCHANGED <<cres, cpc>>
     ELSE /\ cres' = [cres EXCEPT ![c] = HttpsError("internal")]
          /\ cpc' = [cpc EXCEPT ![c] = "done"]
          /\ UNCHANGED calls
  /\ UNCHANGED <<now, webVars, trackVars, cin, cout, vin, vout, creq, cpay,
                 swVars>>

\* Lines 247-259 and 427-435: the call returns or throws; a result with an
\* authorization url is returned to the caller, everything else is caught
\* and rethrown as HttpsError("internal")
ProviderReply(c, o) ==
  /\ cpc[c] = "calling"
  /\ cres' = [cres EXCEPT ![c] =
               IF o = "url"
               THEN [ok |-> TRUE, code |-> "", url |-> "authorization_url"]
               ELSE HttpsError("internal")]
  /\ cpc' = [cpc EXCEPT ![c] = "done"]
  /\ UNCHANGED <<now, webVars, trackVars, cin, cout, vin, vout, creq, cpay,
                 calls, swVars>>

(***************************************************************************)
(* The offline service worker, public/sw.js                                *)
(***************************************************************************)
CACHE_NAME == "kb-offline-v3"

\* A URL path is the sequence of its pieces, each directory or extension
\* with the character that introduces it
CORE_ASSETS ==
  { <<"/">>,
    <<"/readaloud", ".html">>,
    <<"/reader", ".html">>,
    <<"/storybooks", ".pdf", "/books", ".json">>,
    <<"/sounds", "/page-flip", ".mp3">>,
    <<"/logo", ".jpg">> }

\* A content type is the sequence of its pieces; <<>> is a response
\* without the header
ContentTypes ==
  { <<"text/", "html">>, <<"application/", "pdf">>, <<"Image/", "JPEG">>,
    <<>> }

\* String.prototype.toLowerCase on one piece
toLowerCase(piece) ==
  CASE piece = ".PDF" -> ".pdf"
    [] piece = ".Pdf" -> ".pdf"
    [] piece = "Image/" -> "image/"
    [] piece = "JPEG" -> "jpeg"
    [] OTHER -> piece

\* url.pathname.toLowerCase().endsWith(".pdf") with the case left as sent
endsWithPdfAsSent(path) == Len(path) > 0 /\ path[Len(path)] = ".pdf"

\* url.pathname.toLowerCase().endsWith(".pdf")
endsWithPdf(path) ==
  Len(path) > 0 /\ toLowerCase(path[Len(path)]) = ".pdf"

\* The content types the fetch listener takes for small static assets
isStatic(ct) ==
  \E i \in 1..Len(ct) :
    toLowerCase(ct[i]) \in
      {"text/", "javascript", "json", "image/", "font/", "audio/"}

\* The requests the pages send
FetchPaths ==
  { <<"/">>,
    <<"/storybooks", ".pdf", "/books", ".json">>,
    <<"/storybooks", ".pdf", "/tale", ".pdf">>,
    <<"/storybooks", ".pdf", "/TALE", ".PDF">>,
    <<"/api", "/list">> }

FetchRequests ==
  [method : {"GET", "POST"}, sameOrigin : BOOLEAN, path : FetchPaths,
   range : BOOLEAN]

NoFetch == [method |-> "", sameOrigin |-> TRUE, path |-> <<>>, range |-> FALSE]

\* What fetch(req) produces: a response, or a rejection when offline
NetworkFailure == [status |-> 0, ct |-> <<>>]

NetworkOutcomes ==
  [status : {200, 206, 404}, ct : ContentTypes] \cup {NetworkFailure}

\* How a request was answered
Answer(source, status) == [source |-> source, status |-> status]

NoAnswer == Answer("", 0)

\* An entry of the cache: the request it is stored under and the content
\* type of the response stored
Entry(path, range, ct) == [path |-> path, range |-> range, ct |-> ct]

\* The content type the host serves a core asset with
CoreType(path) ==
  CASE path[Len(path)] \in {".jpg"} -> <<"Image/", "JPEG">>
    [] path[Len(path)] \in {".mp3", ".json"} -> <<>>
    [] OTHER -> <<"text/", "html">>

\* caches.match(req): the stored response of the same URL
Matches(path) == {e \in cache : e.path = path}

\* cache.put replaces the entry of the same URL
Put(entries, e) == {x \in entries : x.path # e.path} \cup {e}

\* safeCachePut: nothing is stored unless res.ok; cache.put throws on a
\* 206 response and the exception is swallowed
safeCachePut(r, res) ==
  IF res.status = 200
  THEN cache' = Put(cache, Entry(r.path, r.range, res.ct))
  ELSE UNCHANGED cache

SwIdle ==
  /\ swState = "parsed"
  /\ cacheNames = {}
  /\ cache = {}
  /\ freq = NoFetch
  /\ fans = NoAnswer

\* The install listener: cache.addAll stores every core asset or, when one
\* of them cannot be fetched, none; the worker is then discarded and a
\* later registration installs it again
Install(ok) ==
  /\ swState = "parsed"
  /\ cacheNames' = cacheNames \cup {CACHE_NAME}
  /\ IF ok
     THEN /\ cache' = {e \in cache : e.path \notin CORE_ASSETS}
                        \cup {Entry(a, FALSE, CoreType(a)) : a \in CORE_ASSETS}
          /\ swState' = "installed"
     ELSE UNCHANGED <<cache, swState>>
  /\ UNCHANGED <<now, webVars, trackVars, cin, cout, vin, vout, payVars,
                 freq, fans>>

\* The activate listener: every cache but CACHE_NAME is deleted
Activate ==
  /\ swState = "installed"
  /\ cacheNames' = cacheNames \cap {CACHE_NAME}
  /\ swState' = "activated"
  /\ UNCHANGED <<now, webVars, trackVars, cin, cout, vin, vout, payVars,
                 cache, freq, fans>>

\* The fetch listener on request r when the network produces net.  A
\* request that is not a same-origin GET is left to the browser, a Range
\* request and a request for a PDF are passed to fetch; every other
\* request is answered from the cache when it is there, else from the
\* network, storing static content, else with the offline page
FetchEvent(r, net) ==
  /\ swState = "activated"
  /\ freq' = r
  /\ IF r.method # "GET" \/ ~r.sameOrigin \/ r.range \/ endsWithPdf(r.path)
     THEN /\ fans' = Answer("network", net.status)
          /\ UNCHANGED cache
     ELSE IF Matches(r.path) # {}
     THEN /\ fans' = Answer("cache", 200)
          /\ UNCHANGED cache
     ELSE IF net = NetworkFailure
     THEN /\ fans' = Answer("offline page", 503)
          /\ UNCHANGED cache
     ELSE /\ fans' = Answer("network", net.status)
          /\ IF isStatic(net.ct)
             THEN safeCachePut(r, net)
             ELSE UNCHANGED cache
  /\ UNCHANGED <<now, webVars, trackVars, cin, cout, vin, vout, payVars,
                 swState, cacheNames>>

(***************************************************************************)
(* The signature check applied to one request                              *)
(***************************************************************************)
\* Raw bodies the provider signs
RawBodies == { <<0>>, <<171>>, <<123, 125>>, <<9, 254>> }

\* What happens to the request in transit: nothing, or one bit of one byte
\* of the raw body is inverted, or one bit of one character of the
\* signature header is inverted.
NoChange == [kind |-> "none", pos |-> 0, bit |-> 0]
Changes(raw) ==
  {NoChange}
  \cup [kind : {"body"}, pos : 1..Len(raw), bit : 0..7]
  \cup [kind : {"sig"}, pos : 1..(2 * (Len(raw) + 1)), bit : 0..7]

FlipBit(c, k) ==
  IF (c \div Pow2(k)) % 2 = 1 THEN c - Pow2(k) ELSE c + Pow2(k)
FlipAt(s, pos, k) == [s EXCEPT ![pos] = FlipBit(@, k)]

\* The header the provider computed for the body it sent
SentSignature(raw) == HexEncode(DigestBytes(Hmac(ProviderKey, raw)))
\* req.rawBody and the x-paystack-signature header as they arrive
ReceivedBody(v) ==
  IF v.change.kind = "body" THEN FlipAt(v.raw, v.change.pos, v.change.bit)
  ELSE v.raw
ReceivedSignature(v) ==
  IF v.change.kind = "sig"
  THEN FlipAt(SentSignature(v.raw), v.change.pos, v.change.bit)
  ELSE SentSignature(v.raw)

NoVerdict == [checked |-> FALSE, resp |-> NoResp]

\* Lines 283-288 on the request of vin; resp = NoResp when the check passes
VerifySignature ==
  /\ ~vout.checked
  /\ vout' =
       [checked |-> TRUE,
        resp |->
          IF timingSafeEqualHexChars(
               HexEncode(DigestBytes(Hmac(secretCfg, ReceivedBody(vin)))),
               ReceivedSignature(vin))
          THEN NoResp
          ELSE Resp(400, "Invalid signature")]
  /\ UNCHANGED <<now, webVars, trackVars, cin, cout, vin, payVars, swVars>>

(***************************************************************************)
(* Specifications                                                          *)
(***************************************************************************)
TrackInit ==
  /\ sessions = {}
  /\ locations = <<>>
  /\ lastLocation = [e \in Students |-> NoLoc]
  /\ ping = [p \in Pings |-> NoPing]
  /\ ppc = [p \in Pings |-> "idle"]
  /\ sess = [p \in Pings |-> NoSession]
  /\ checkedAt = [p \in Pings |-> NullInt]
  /\ presp = [p \in Pings |-> NoResp]
  /\ created = 0
  /\ issued = {}

VerifyIdle ==
  /\ vin = [raw |-> <<>>, change |-> NoChange]
  /\ vout = NoVerdict

PayIdle ==
  /\ creq = [c \in Checkouts |-> NoCheckout]
  /\ cpc = [c \in Checkouts |-> "idle"]
  /\ cpay = [c \in Checkouts |-> NoPayload]
  /\ calls = [c \in Checkouts |-> 0]
  /\ cres = [c \in Checkouts |-> NoResult]

ClassIdle ==
  /\ cin = [metaPlan |-> Undefined, amount |-> NoAmt]
  /\ cout = NoClass
  /\ VerifyIdle
  /\ PayIdle
  /\ SwIdle

\* The webhook's secret is provisioned, or it is not
Init ==
  /\ now = StartTime
  /\ secretCfg \in {ProviderKey, ""}
  /\ WebhookInit
  /\ TrackInit
  /\ ClassIdle

InitTrack ==
  /\ now = StartTime
  /\ secretCfg = ProviderKey
  /\ WebhookInit
  /\ TrackInit
  /\ ClassIdle

\* Concurrent deliveries: any delivery may take its next step at any time.
Next ==
  \E d \in Deliveries :
    \/ \E r \in Requests : WebhookReceive(d, r)
    \/ LedgerGet(d)
    \/ LedgerSet(d)
    \/ UserQuery(d)
    \/ UserSet(d)

Spec == Init /\ [][Next]_vars

\* Deliveries one after the other: delivery d arrives when every delivery
\* before it has been answered.
InOrder(d) == \A e \in Deliveries : e < d => pc[e] = "done"

NextSeq ==
  \E d \in Deliveries :
    \/ \E r \in RequestsWide : InOrder(d) /\ WebhookReceive(d, r)
    \/ LedgerGet(d)
    \/ LedgerSet(d)
    \/ UserQuery(d)
    \/ UserSet(d)

SpecSeq == Init /\ [][NextSeq]_vars

\* Concurrent deliveries while time passes and store operations may fail
NextHook ==
  \/ Tick
  \/ \E d \in Deliveries :
       \/ \E r \in RequestsHook : WebhookReceive(d, r)
       \/ LedgerGet(d)
       \/ LedgerSet(d)
       \/ UserQuery(d)
       \/ UserSet(d)
       \/ StoreFail(d)

SpecHook == Init /\ [][NextHook]_vars

\* Session issuance, concurrent pings and the passing of time
NextTrack ==
  \/ Tick
  \/ \E me \in Callers, st \in {"s1", "s2", "s9"}, code \in RandCodes :
       createTrackingSession(me, st, code)
  \/ \E p \in Pings :
       \/ \E r \in PingRequests : PingReceive(p, r)
       \/ PingQuery(p)
       \/ PingAdd(p)
       \/ PingSet(p)

SpecTrack == InitTrack /\ [][NextTrack]_vars

\* The same, where any store operation of a ping may fail
NextTrackFail ==
  \/ NextTrack
  \/ \E p \in Pings : PingFail(p)

SpecTrackFail == InitTrack /\ [][NextTrackFail]_vars

\* Session issuance and deactivation, time, and pings drawn from the wider
\* set of requests, each arriving when the pings before it are answered
PingInOrder(p) == \A q \in Pings : q < p => ppc[q] = "done"

NextTrackGate ==
  \/ Tick
  \/ \E me \in Callers, st \in {"s1", "s2", "s9"}, code \in RandCodes :
       createTrackingSession(me, st, code)
  \/ \E s \in sessions : DeactivateSession(s)
  \/ \E p \in Pings :
       \/ \E r \in PingRequestsWide : PingInOrder(p) /\ PingReceive(p, r)
       \/ PingQuery(p)
       \/ PingAdd(p)
       \/ PingSet(p)

SpecTrackGate == InitTrack /\ [][NextTrackGate]_vars

\* Pings of a moving device: each names an issued session with its token
\* and carries one of two positions
PingRequestsMoving ==
  { PingBody("POST", s.sessionId, s.token, lat, NumAmt(30), NumAmt(5)) :
      s \in sessions, lat \in {NumAmt(10), NumAmt(11)} }

\* Session issuance, time, and concurrent pings of a moving device
NextTrackMove ==
  \/ Tick
  \/ \E me \in Callers, st \in {"s1", "s2", "s9"}, code \in RandCodes :
       createTrackingSession(me, st, code)
  \/ \E p \in Pings :
       \/ \E r \in PingRequestsMoving : PingReceive(p, r)
       \/ PingQuery(p)
       \/ PingAdd(p)
       \/ PingSet(p)

SpecTrackMove == InitTrack /\ [][NextTrackMove]_vars

\* A session document the store already holds when the functions start:
\* written by an earlier deployment or by another client of the store, with
\* whatever expiresAt that writer left
StoredExpiries == {NullInt, 0, UnreadableTs, ExpiresAt(StartTime)}

StoredSession(exp) ==
  [sessionId |-> SessionId(StartTime, "AAAAA"), token |-> Token(1),
   orgId |-> "o1", studentId |-> "s1", createdBy |-> "ua",
   createdAt |-> StartTime, expiresAt |-> exp, isActive |-> TRUE]

InitStored ==
  /\ now = StartTime
  /\ secretCfg = ProviderKey
  /\ WebhookInit
  /\ ClassIdle
  /\ sessions \in { {StoredSession(exp)} : exp \in StoredExpiries }
  /\ locations = <<>>
  /\ lastLocation = [e \in Students |-> NoLoc]
  /\ ping = [p \in Pings |-> NoPing]
  /\ ppc = [p \in Pings |-> "idle"]
  /\ sess = [p \in Pings |-> NoSession]
  /\ checkedAt = [p \in Pings |-> NullInt]
  /\ presp = [p \in Pings |-> NoResp]
  /\ created = 1
  /\ issued = {}

\* Pings on the stored session while time passes
NextStored ==
  \/ Tick
  \/ \E p \in Pings :
       \/ \E r \in PingRequests : PingReceive(p, r)
       \/ PingQuery(p)
       \/ PingAdd(p)
       \/ PingSet(p)

SpecStored == InitStored /\ [][NextStored]_vars

\* The classifier on every combination of raw metadata plan and raw amount
InitClassify ==
  /\ now = StartTime
  /\ secretCfg = ProviderKey
  /\ WebhookInit
  /\ TrackInit
  /\ cin \in [metaPlan : RawPlans, amount : RawAmounts]
  /\ cout = NoClass
  /\ VerifyIdle
  /\ PayIdle
  /\ SwIdle

NextClassify == ClassifyEvent

SpecClassify == InitClassify /\ [][NextClassify]_vars

\* The signature check on every signed body and every one-bit change
InitVerify ==
  /\ now = StartTime
  /\ secretCfg = ProviderKey
  /\ WebhookInit
  /\ TrackInit
  /\ cin = [metaPlan |-> Undefined, amount |-> NoAmt]
  /\ cout = NoClass
  /\ \E raw \in RawBodies :
       vin \in [raw : {raw}, change : Changes(raw)]
  /\ vout = NoVerdict
  /\ PayIdle
  /\ SwIdle

NextVerify == VerifySignature

SpecVerify == InitVerify /\ [][NextVerify]_vars

\* Concurrent checkout requests while time passes; the secret is
\* provisioned, or it is not
NextCheckout ==
  \/ Tick
  \/ \E c \in Checkouts :
       \/ \E r \in CheckoutRequests : CheckoutStart(c, r)
       \/ \E o \in ProviderOutcomes : ProviderReply(c, o)

SpecCheckout == Init /\ [][NextCheckout]_vars

\* At-least-once delivery: the provider sends an event, and sends it again
\* after every answer that is not 200.  Delivery 1 is the first sending,
\* delivery d + 1 the one that follows the answer to delivery d
Redeliver(d) ==
  /\ d > 1
  /\ pc[d - 1] = "done"
  /\ resp[d - 1].status # 200
  /\ WebhookReceive(d, req[d - 1])

\* A store operation throws, for the first time
StoreFailOnce(d) ==
  /\ \A e \in Deliveries : ~failed[e]
  /\ StoreFail(d)

NextRedeliver ==
  \/ Tick
  \/ \E r \in RequestsHook : WebhookReceive(1, r)
  \/ \E d \in Deliveries :
       \/ Redeliver(d)
       \/ LedgerGet(d)
       \/ LedgerSet(d)
       \/ UserQuery(d)
       \/ UserSet(d)
       \/ StoreFailOnce(d)

\* Every store operation that does not throw completes, and the provider
\* does redeliver
FairRedeliver ==
  \A d \in Deliveries :
    /\ WF_vars(Redeliver(d))
    /\ WF_vars(LedgerGet(d))
    /\ WF_vars(LedgerSet(d))
    /\ WF_vars(UserQuery(d))
    /\ WF_vars(UserSet(d))

SpecRedeliver == Init /\ [][NextRedeliver]_vars /\ FairRedeliver

\* The service worker of a browser that holds no cache of the site, or the
\* cache of an older worker
InitWorker ==
  /\ now = StartTime
  /\ secretCfg = ProviderKey
  /\ WebhookInit
  /\ TrackInit
  /\ cin = [metaPlan |-> Undefined, amount |-> NoAmt]
  /\ cout = NoClass
  /\ VerifyIdle
  /\ PayIdle
  /\ swState = "parsed"
  /\ cacheNames \in {{}, {"kb-offline-v2"}}
  /\ cache = {}
  /\ freq = NoFetch
  /\ fans = NoAnswer

NextWorker ==
  \/ \E ok \in BOOLEAN : Install(ok)
  \/ Activate
  \/ \E r \in FetchRequests, net \in NetworkOutcomes : FetchEvent(r, net)

SpecWorker == InitWorker /\ [][NextWorker]_vars

(***************************************************************************)
(* Properties of the webhook                                               *)
(***************************************************************************)
\* The request of delivery d is a validly signed charge.success event that
\* names a customer: every gate before the ledger lets it through.
ValidCharge(d) ==
  /\ pc[d] # "idle"
  /\ req[d].method = "POST"
  /\ secretCfg # ""
  /\ req[d].sig.present
  /\ req[d].sig.dig = Hmac(secretCfg, req[d].body)
  /\ req[d].body.event = "charge.success"
  /\ Email(req[d]) # ""

\* Delivery d has been let through the ledger gate for its reference
PassedLedger(d) ==
  /\ ValidCharge(d)
  /\ Reference(req[d]) # Null
  /\ \/ pc[d] \in {"ledgerSet", "userQuery", "userSet"}
     \/ pc[d] = "done" /\ resp[d] # Resp(200, "Duplicate")

AllDone == \A d \in Deliveries : pc[d] = "done"

WritesFor(ref) ==
  { d \in Deliveries : wrote[d] /\ updates[d].lastPaymentRef = ref }

\* C1: of the concurrent deliveries of a validly signed charge.success event
\* with reference r, at most one is let through the ledger gate towards
\* projection, and once all are answered exactly one was; the others were
\* answered "Duplicate" and wrote nothing.
C1_OneDeliveryAccepted ==
  \A d \in Deliveries, e \in Deliveries :
    (d # e /\ ValidCharge(d) /\ ValidCharge(e)
       /\ Reference(req[d]) # Null
       /\ req[d] = req[e])
    => /\ ~(PassedLedger(d) /\ PassedLedger(e))
       /\ (pc[d] = "done" /\ pc[e] = "done"
             => (PassedLedger(d) \/ PassedLedger(e)))

\* C2: the same valid event with reference r and a matching user, submitted
\* for the first time by delivery i and again by a later delivery j: i is
\* answered OK and writes the user, j is answered 200 "Duplicate" having
\* only read the ledger, the ledger holds r, and exactly one user write
\* carries r.
C2_SecondSubmissionIsDuplicate ==
  \A i \in Deliveries, j \in Deliveries :
    (/\ i < j /\ pc[i] = "done" /\ pc[j] = "done"
     /\ req[i] = req[j]
     /\ ValidCharge(i)
     /\ Reference(req[i]) # Null
     /\ MatchingUsers(Email(req[i])) # {}
     /\ \A k \in Deliveries :
          (k < i /\ ValidCharge(k)) => Reference(req[k]) # Reference(req[i]))
    => /\ paystack_events[Reference(req[i])].exists
       /\ resp[i] = Resp(200, "OK") /\ wrote[i]
       /\ resp[j] = Resp(200, "Duplicate")
       /\ ~wrote[j] /\ storeOps[j] = 1
       /\ Cardinality(WritesFor(Reference(req[i]))) = 1

C2_Witness ==
  \E i \in Deliveries, j \in Deliveries :
    /\ i < j /\ pc[i] = "done" /\ pc[j] = "done"
    /\ req[i] = req[j]
    /\ ValidCharge(i)
    /\ Reference(req[i]) = "R1"
    /\ MatchingUsers(Email(req[i])) # {}
    /\ \A k \in Deliveries :
         (k < i /\ ValidCharge(k)) => Reference(req[k]) # "R1"
    /\ resp[j] = Resp(200, "Duplicate")
    /\ users[1].lastPaymentRef = "R1"

\* The signature check fails for the request of d: no secret is configured,
\* the header is missing, or the header is not the HMAC of the body under
\* the configured secret.
AuthFails(d) ==
  /\ pc[d] # "idle"
  /\ \/ secretCfg = ""
     \/ ~req[d].sig.present
     \/ req[d].sig.dig # Hmac(secretCfg, req[d].body)

\* C3: a request that fails the signature check is answered at once with
\* 400, 405 or 500 and has issued no store operation, read or write.
C3_AuthFailureTouchesNoStore ==
  \A d \in Deliveries :
    AuthFails(d)
    => /\ pc[d] = "done"
       /\ resp[d].status \in {400, 405, 500}
       /\ storeOps[d] = 0
       /\ ~wrote[d]

C3_Witness ==
  \E d \in Deliveries, e \in Deliveries :
    /\ AuthFails(d) /\ secretCfg # "" /\ req[d].sig.present
    /\ req[d].method = "POST"
    /\ resp[d] = Resp(400, "Invalid signature")
    /\ AuthFails(e) /\ ~req[e].sig.present /\ req[e].method = "POST"
    /\ resp[e] = Resp(400, "Missing signature")
    /\ paystack_events = [r \in References |-> NoDoc]

\* C8: the step that projects an accepted event with no metadata plan and
\* an amount matching no price point makes the user's plan pending and its
\* status inactive and leaves the user's subscriptionEndsAt as it was.
C8_PendingKeepsExpiry ==
  [][\A d \in Deliveries :
       (/\ pc[d] = "userSet" /\ pc'[d] = "done"
        /\ MetaPlan(req[d].body.metaPlan) = ""
        /\ ByAmount(Amount(req[d])).plan = "pending")
       => /\ users'[userRef[d]].plan = "pending"
          /\ users'[userRef[d]].status = "inactive"
          /\ users'[userRef[d]].subscriptionEndsAt =
               users[userRef[d]].subscriptionEndsAt]_vars

\* C9: a user record the projector has written has status active exactly
\* when its plan is not pending.
C9_ActiveIffNotPending ==
  \A u \in UserIds :
    users[u].plan # Null
    => (users[u].status = "active" <=> users[u].plan # "pending")

C9_Witness ==
  /\ \E u \in UserIds : users[u].plan = "pending" /\ users[u].status = "inactive"
  /\ \E d \in Deliveries :
       wrote[d] /\ updates[d].plan = "monthly" /\ updates[d].status = "active"

\* C10: once every delivery is answered, each reference recorded in the
\* ledger has exactly one user write carrying it, and every user write
\* carries a reference the ledger recorded.
C10_OneMutationPerAcceptedEvent ==
  AllDone
  => /\ \A r \in References :
          paystack_events[r].exists => Cardinality(WritesFor(r)) = 1
     /\ \A d \in Deliveries :
          wrote[d]
          => /\ updates[d].lastPaymentRef # Null
             /\ paystack_events[updates[d].lastPaymentRef].exists

(***************************************************************************)
(* Properties of the tracking-session ping channel                         *)
(***************************************************************************)
\* The history rows ping p has added
RowsBy(p) == { i \in DOMAIN locations : locations[i].by = p }

\* Ping p has resolved a session (line 1055)
Resolved(p) == ppc[p] \notin {"idle", "query"} /\ sess[p] # NoSession

Entity(p) == <<sess[p].orgId, sess[p].studentId>>

\* C4: a ping carrying the id and the token of an issued, active session is
\* accepted when the expiry check runs less than 24 hours after issuance:
\* answered ok, it has added exactly one history row for the session's
\* student and the student's snapshot is set (to this ping's position,
\* unless a later ping replaced it). When the check runs more than 24 hours
\* after issuance the ping is answered 403 "session expired" and has added
\* no row and set no snapshot.
C4_PingBeforeAndAfterExpiry ==
  \A p \in Pings :
    (Resolved(p) /\ sess[p].isActive /\ ping[p].tok = sess[p].token)
    => /\ checkedAt[p] < sess[p].createdAt + 24 * 60 * 60
          => /\ ppc[p] \in {"add", "set", "done"}
             /\ ppc[p] = "done"
                => /\ presp[p] = Resp(200, "ok")
                   /\ Cardinality(RowsBy(p)) = 1
                   /\ \A i \in RowsBy(p) :
                        /\ locations[i].orgId = sess[p].orgId
                        /\ locations[i].studentId = sess[p].studentId
                        /\ locations[i].lat = ping[p].lat.v
                        /\ locations[i].lng = ping[p].lng.v
                   /\ lastLocation[Entity(p)] # NoLoc
                   /\ lastLocation[Entity(p)].by = p
                        => /\ lastLocation[Entity(p)].lat = ping[p].lat.v
                           /\ lastLocation[Entity(p)].lng = ping[p].lng.v
                           /\ lastLocation[Entity(p)].sid = ping[p].sid
       /\ checkedAt[p] > sess[p].createdAt + 24 * 60 * 60
          => /\ ppc[p] = "done"
             /\ presp[p] = Resp(403, "session expired")
             /\ RowsBy(p) = {}
             /\ \A e \in Students : lastLocation[e].by # p

C4_Witness ==
  \E p \in Pings, q \in Pings :
    /\ ppc[p] = "done" /\ ppc[q] = "done"
    /\ ping[p] = ping[q] /\ sess[p] = sess[q]
    /\ Resolved(p) /\ ping[p].tok = sess[p].token
    /\ checkedAt[p] < sess[p].createdAt + 24 * 60 * 60
    /\ checkedAt[q] > sess[p].createdAt + 24 * 60 * 60
    /\ presp[p] = Resp(200, "ok")
    /\ presp[q] = Resp(403, "session expired")
    /\ Len(locations) = 1
    /\ lastLocation[Entity(p)].by = p

\* C5: a ping carrying the id of a session together with a token that is
\* not the token stored in the session the id resolves to is answered 403
\* and adds no history row and sets no snapshot.
C5_WrongTokenRejected ==
  \A p \in Pings :
    (Resolved(p) /\ ping[p].tok # sess[p].token)
    => /\ ppc[p] = "done"
       /\ presp[p].status = 403
       /\ RowsBy(p) = {}
       /\ \A e \in Students : lastLocation[e].by # p

C5_Witness ==
  \E p \in Pings :
    /\ Resolved(p) /\ ppc[p] = "done"
    /\ \E b \in sessions :
         /\ b.sessionId # sess[p].sessionId
         /\ b.token = ping[p].tok
         /\ b.token # sess[p].token
    /\ sess[p] \in sessions
    /\ presp[p] = Resp(403, "bad token")

(***************************************************************************)
(* Properties of the classifier                                            *)
(***************************************************************************)
\* C6: an event whose metadata plan is one of the four plan tags resolves to
\* that plan and to its duration (monthly 30 days, yearly 365 days,
\* lifetime and community none), whatever its amount.
C6_MetadataPlanWins ==
  (cout # NoClass /\ MetaPlan(cin.metaPlan) \in PlanTags)
  => /\ cout.plan = MetaPlan(cin.metaPlan)
     /\ cout.days = CASE cout.plan = "monthly" -> 30
                      [] cout.plan = "yearly" -> 365
                      [] OTHER -> NullInt

C6_Witness ==
  /\ cin = [metaPlan |-> Plain("yearly"), amount |-> NumAmt(10000)]
  /\ cout = [plan |-> "yearly", days |-> 365]

\* C7: an event whose metadata plan is absent or is not one of the four
\* plan tags resolves by its amount: 10000 monthly / 30 days, 90000 yearly /
\* 365 days, 500000 lifetime, 500 community, any other amount pending.
C7_AmountDecidesOtherwise ==
  (cout # NoClass /\ MetaPlan(cin.metaPlan) \notin PlanTags)
  => cout = CASE ToNumber(cin.amount) = 10000 -> [plan |-> "monthly", days |-> 30]
              [] ToNumber(cin.amount) = 90000 -> [plan |-> "yearly", days |-> 365]
              [] ToNumber(cin.amount) = 500000 ->
                   [plan |-> "lifetime", days |-> NullInt]
              [] ToNumber(cin.amount) = 500 ->
                   [plan |-> "community", days |-> NullInt]
              [] OTHER -> [plan |-> "pending", days |-> NullInt]

(***************************************************************************)
(* Properties of the webhook's no-op answers                               *)
(***************************************************************************)
\* C11: a validly signed charge.success delivery whose e-mail matches no
\* user is answered 200 and has written neither a user record nor a ledger
\* record.
C11_NoMatchingUserIsNoOp ==
  \A d \in Deliveries :
    (ValidCharge(d) /\ pc[d] = "done" /\ MatchingUsers(Email(req[d])) = {})
    => /\ resp[d].status = 200
       /\ ~wrote[d]
       /\ ~ledgerWrote[d]

(***************************************************************************)
(* Properties of the ping's two writes                                     *)
(***************************************************************************)
\* C12: in every state, also between the two writes of a ping and after a
\* failed write, a student's lastLocation snapshot is the position of a ping
\* that has a row in that student's location history.
C12_SnapshotHasHistoryRow ==
  \A e \in Students :
    lastLocation[e] # NoLoc
    => \E i \in DOMAIN locations :
         /\ locations[i].by = lastLocation[e].by
         /\ <<locations[i].orgId, locations[i].studentId>> = e
         /\ locations[i].sid = lastLocation[e].sid
         /\ locations[i].lat = lastLocation[e].lat
         /\ locations[i].lng = lastLocation[e].lng
         /\ locations[i].acc = lastLocation[e].acc
         /\ locations[i].createdAt <= lastLocation[e].updatedAt

\* One ping has written both its row and the snapshot; the other has
\* written its row and then failed on the snapshot write.
C12_Witness ==
  \E p \in Pings, q \in Pings :
    /\ ppc[p] = "done" /\ presp[p] = Resp(200, "ok")
    /\ ppc[q] = "done" /\ presp[q].status = 500
    /\ RowsBy(p) # {} /\ RowsBy(q) # {}
    /\ Entity(p) = Entity(q)
    /\ lastLocation[Entity(p)].by = p

(***************************************************************************)
(* Properties of the ping's gates                                          *)
(***************************************************************************)
\* Ping p was well-formed and its session query has returned
Queried(p) == ppc[p] \notin {"idle", "query"} /\ PrePing(ping[p]) = NoResp

PastExpiry(p) == checkedAt[p] > sess[p].expiresAt

NothingWritten(p) ==
  RowsBy(p) = {} /\ \A e \in Students : lastLocation[e].by # p

\* C13: a ping whose session id names no session is answered 404 "session
\* not found" whatever its token; a ping that resolves to an inactive
\* session is answered 403 "session inactive", also when the session is past
\* its expiry and whatever the token; a ping that resolves to an active
\* session past its expiry, with that session's token, is answered 403
\* "session expired". None of them writes anything.
C13_NotFoundInactiveExpiredInOrder ==
  \A p \in Pings :
    Queried(p)
    => /\ SessionsWithId(ping[p].sid) = {}
          => /\ ppc[p] = "done"
             /\ presp[p] = Resp(404, "session not found")
             /\ NothingWritten(p)
       /\ presp[p].status = 404 => sess[p] = NoSession
       /\ (sess[p] # NoSession /\ ~sess[p].isActive)
          => /\ ppc[p] = "done"
             /\ presp[p] = Resp(403, "session inactive")
             /\ NothingWritten(p)
       /\ (sess[p] # NoSession /\ sess[p].isActive /\ PastExpiry(p)
             /\ ping[p].tok = sess[p].token)
          => /\ ppc[p] = "done"
             /\ presp[p] = Resp(403, "session expired")
             /\ NothingWritten(p)

\* One ping met a session that was inactive and past its expiry, another
\* an active session past its expiry.
C13_Witness ==
  \E p \in Pings, q \in Pings :
    /\ Queried(p) /\ sess[p] # NoSession /\ ~sess[p].isActive /\ PastExpiry(p)
    /\ ping[p].tok = sess[p].token
    /\ presp[p] = Resp(403, "session inactive")
    /\ Queried(q) /\ sess[q] # NoSession /\ sess[q].isActive /\ PastExpiry(q)
    /\ presp[q] = Resp(403, "session expired")

(***************************************************************************)
(* Properties of the webhook's status codes                                *)
(***************************************************************************)
SignatureOk(r) == r.sig.present /\ r.sig.dig = Hmac(secretCfg, r.body)

\* C14: the status of an answered delivery is 405 for a non-POST method;
\* else 500 when the secret is missing; else 400 when the signature is
\* missing or invalid; else 400 when the body is malformed; else 500 when a
\* store operation failed; else 200 with one of the five texts Ignored,
\* Duplicate, No email, No matching user, OK.
C14_StatusCodes ==
  \A d \in Deliveries :
    pc[d] = "done"
    => /\ resp[d].status = 200
          => resp[d].text \in {"Ignored", "Duplicate", "No email",
                               "No matching user", "OK"}
       /\ resp[d].status =
         CASE req[d].method # "POST" -> 405
           [] req[d].method = "POST" /\ secretCfg = "" -> 500
           [] req[d].method = "POST" /\ secretCfg # "" /\ ~SignatureOk(req[d])
                -> 400
           [] req[d].method = "POST" /\ secretCfg # "" /\ SignatureOk(req[d])
                /\ req[d].body = MalformedBody -> 400
           [] req[d].method = "POST" /\ secretCfg # "" /\ SignatureOk(req[d])
                /\ req[d].body # MalformedBody /\ failed[d] -> 500
           [] OTHER -> 200

\* C15: a validly signed POST whose event type is not charge.success is
\* answered 200 "Ignored" at once: it issues no store operation, writes no
\* ledger record and no user record, whatever reference, e-mail, amount or
\* metadata plan it carries.
C15_OtherEventsIgnored ==
  \A d \in Deliveries :
    (pc[d] # "idle" /\ req[d].method = "POST" /\ secretCfg # ""
       /\ SignatureOk(req[d]) /\ req[d].body.event # "charge.success")
    => /\ pc[d] = "done"
       /\ resp[d] = Resp(200, "Ignored")
       /\ storeOps[d] = 0
       /\ ~wrote[d]
       /\ ~ledgerWrote[d]

\* A failed charge that names reference R2, the e-mail of user 2 and the
\* yearly amount has been ignored, and the charge.success event of R2 that
\* followed it has been accepted, not answered as a duplicate.
C15_Witness ==
  \E d \in Deliveries, e \in Deliveries :
    /\ d < e
    /\ req[d].body = Body("charge.failed", "R2", Plain("b@x.com"),
                          NumAmt(90000), Plain("yearly"))
    /\ resp[d] = Resp(200, "Ignored")
    /\ pc[e] = "done" /\ Reference(req[e]) = "R2"
    /\ resp[e] = Resp(200, "OK")

\* A coordinate that is absent or null, or that is not a number (the empty
\* string, a non-numeric string)
NotANumber(raw) == raw.t \in {"undef", "null", "empty", "nan"}

\* C16: a POSTed ping without session id or without token, or whose latitude
\* or longitude is missing or not a number, is answered 400 at once: no
\* session is looked up, no history row is added and no snapshot is set.
C16_InvalidFieldsAnswered400 ==
  \A p \in Pings :
    (ppc[p] # "idle" /\ ping[p].method = "POST"
       /\ \/ ping[p].sid = NoSid
          \/ ping[p].tok = NoToken
          \/ NotANumber(ping[p].lat)
          \/ NotANumber(ping[p].lng))
    => /\ ppc[p] = "done"
       /\ presp[p].status = 400
       /\ sess[p] = NoSession
       /\ checkedAt[p] = NullInt
       /\ NothingWritten(p)

\* C17: a validly signed charge.success delivery that carries no reference
\* and whose e-mail matches a user never reads or writes the ledger; once
\* answered it has been answered 200 "OK" after exactly two store operations
\* (the user query and the user write) and has written the user with
\* lastPaymentRef = null. This holds for every such delivery, repeats
\* included.
C17_NoReferenceBypassesLedger ==
  \A d \in Deliveries :
    (ValidCharge(d) /\ req[d].body.reference \in {Null, ""}
       /\ MatchingUsers(Email(req[d])) # {})
    => /\ pc[d] \in {"userQuery", "userSet", "done"}
       /\ ~ledgerWrote[d]
       /\ pc[d] = "done"
          => /\ resp[d] = Resp(200, "OK")
             /\ wrote[d]
             /\ storeOps[d] = 2
             /\ updates[d].lastPaymentRef = Null
             /\ users[userRef[d]].lastPaymentRef = Null
                  \/ \E e \in Deliveries : e # d /\ wrote[e]

\* The same event without reference was delivered twice; both deliveries
\* wrote the user, and the ledger is empty.
C17_Witness ==
  \E d \in Deliveries, e \in Deliveries :
    /\ d # e /\ req[d] = req[e]
    /\ ValidCharge(d) /\ req[d].body.reference = Null
    /\ pc[d] = "done" /\ pc[e] = "done"
    /\ wrote[d] /\ wrote[e]
    /\ users[userRef[d]].lastPaymentRef = Null
    /\ \A r \in References : ~paystack_events[r].exists

(***************************************************************************)
(* Properties of the ledger                                                *)
(***************************************************************************)
\* C18: no step changes or removes a ledger record that exists: its
\* createdAt, email and amount stay as they are.
C18_LedgerRecordNeverRewritten ==
  [][\A r \in References :
       paystack_events[r].exists => paystack_events'[r] = paystack_events[r]]_vars

(***************************************************************************)
(* Properties of the signature check                                       *)
(***************************************************************************)
\* C19 as claimed: the request that arrives unchanged passes the signature
\* check, and every request in which one bit of the raw body or of the
\* signature header was inverted is answered 400 "Invalid signature".
C19_AnyBitChangeFails ==
  vout.checked
  => /\ vin.change.kind = "none" => vout.resp = NoResp
     /\ vin.change.kind # "none" => vout.resp = Resp(400, "Invalid signature")

\* The received header differs from the sent one only in the letter case of
\* a hex digit a..f
ToLowerHex(c) == IF c >= 65 /\ c <= 70 THEN c + 32 ELSE c
CaseChangeOnly(v) ==
  /\ ReceivedSignature(v) # SentSignature(v.raw)
  /\ [i \in DOMAIN ReceivedSignature(v) |-> ToLowerHex(ReceivedSignature(v)[i])]
       = SentSignature(v.raw)

\* What the check does guarantee: the unchanged request passes; every
\* one-bit change of the raw body is answered 400 "Invalid signature"; a
\* one-bit change of the signature header is answered 400 "Invalid
\* signature" unless it turns a hex digit a..f into its upper-case form, in
\* which case the check passes.
BitChangeFailsExceptLetterCase ==
  vout.checked
  => /\ vin.change.kind = "none" => vout.resp = NoResp
     /\ vin.change.kind = "body"
          => vout.resp = Resp(400, "Invalid signature")
     /\ vin.change.kind = "sig"
          => IF CaseChangeOnly(vin) THEN vout.resp = NoResp
             ELSE vout.resp = Resp(400, "Invalid signature")

(***************************************************************************)
(* Properties of session issuance                                          *)
(***************************************************************************)
\* The session document the call answered by u has written, while no later
\* call has replaced it
DocOf(u) == { s \in sessions : s.token.id = u.call }

\* The session id of u names the document of u and no other
IdNamesOnly(u) == DocOf(u) # {} /\ SessionsWithId(u.sessionId) = DocOf(u)

\* Ping p is a well-formed request carrying the sid and tok parameters of
\* the trackerUrl of u
BuiltFrom(p, u) ==
  /\ ping[p].method = "POST"
  /\ ping[p].sid = u.trackerUrl.sid
  /\ ping[p].tok = u.trackerUrl.tok
  /\ PrePing(ping[p]) = NoResp

\* C20: the document createTrackingSession has written is active, holds a
\* token of 32 symbols and expires 24 hours after the call, as the response
\* says; the sid and tok parameters of the returned trackerUrl are the
\* document's sessionId and token; and, while the session id names that
\* document only, a ping built from them whose expiry check runs before
\* the expiry is accepted and, once answered, has added a row for the
\* student the session was requested for and set that student's snapshot.
C20_TrackerUrlOpensTheSession ==
  \A u \in issued :
    /\ u.expiresAt = u.at + 24 * 60 * 60
    /\ \A s \in DocOf(u) :
         /\ s.isActive
         /\ s.token.len = 32
         /\ s.expiresAt = u.expiresAt
         /\ s.orgId = u.orgId /\ s.studentId = u.studentId
         /\ s.sessionId = u.sessionId
         /\ u.trackerUrl.sid = s.sessionId
         /\ u.trackerUrl.tok = s.token
    /\ \A p \in Pings :
         (BuiltFrom(p, u) /\ ppc[p] \notin {"idle", "query"} /\ IdNamesOnly(u)
            /\ checkedAt[p] < u.expiresAt)
         => /\ ppc[p] \in {"add", "set", "done"}
            /\ sess[p] \in DocOf(u)
            /\ ppc[p] = "done"
               => /\ presp[p] = Resp(200, "ok")
                  /\ \E i \in RowsBy(p) :
                       /\ locations[i].orgId = u.orgId
                       /\ locations[i].studentId = u.studentId
                  /\ lastLocation[<<u.orgId, u.studentId>>] # NoLoc

\* A ping built from a returned trackerUrl has been answered ok and is the
\* snapshot of the student the session was requested for.
C20_Witness ==
  \E u \in issued, p \in Pings :
    /\ BuiltFrom(p, u) /\ IdNamesOnly(u)
    /\ ppc[p] = "done" /\ presp[p] = Resp(200, "ok")
    /\ checkedAt[p] < u.expiresAt
    /\ lastLocation[<<u.orgId, u.studentId>>].by = p
    /\ RowsBy(p) # {}

(***************************************************************************)
(* Properties of the projection's write                                    *)
(***************************************************************************)
\* Some delivery at its user write has resolved user u by the e-mail of
\* its event
WriterOf(u) ==
  \E d \in Deliveries :
    /\ pc[d] = "userSet" /\ userRef[d] = u
    /\ users[u].email = Email(req[d])

\* C21 as claimed: a step that changes a user record changes the record a
\* delivery has matched, and in it nothing but plan, status, lastPaymentRef,
\* subscriptionEndsAt and updatedAt.
C21_OnlySubscriptionFieldsChange ==
  [][\A u \in UserIds :
       users'[u] # users[u]
       => /\ WriterOf(u)
          /\ users'[u].email = users[u].email
          /\ users'[u].role = users[u].role
          /\ users'[u].trialEndsAt = users[u].trialEndsAt]_vars

\* C21 amended: a step that changes a user record changes the record a
\* delivery has matched; it leaves email and role as they are and, besides
\* plan, status, lastPaymentRef, subscriptionEndsAt and updatedAt, it sets
\* trialEndsAt to null. Every other user record is unchanged by the step.
C21_SubscriptionFieldsAndTrialChange ==
  [][\A u \in UserIds :
       users'[u] # users[u]
       => /\ WriterOf(u)
          /\ users'[u].email = users[u].email
          /\ users'[u].role = users[u].role
          /\ users'[u].trialEndsAt = NullInt
          /\ \A v \in UserIds \ {u} : users'[v] = users[v]]_vars

\* User 1, who was on trial, has been written by a delivery: the trial end
\* is cleared, e-mail and role are kept, and user 2 is as registered.
C21_Witness ==
  \E d \in Deliveries :
    /\ wrote[d] /\ userRef[d] = 1
    /\ users[1].plan = updates[d].plan
    /\ users[1].trialEndsAt = NullInt
    /\ users[1].email = "a@x.com" /\ users[1].role = "parent"
    /\ users[2] = NewUser("b@x.com", NullInt)

(***************************************************************************)
(* Properties of the session records                                       *)
(***************************************************************************)
\* C22: a step of a ping (its arrival, its session query, its history add,
\* its snapshot write, the failure of one of these) leaves every session
\* document as it is: sessionId, token, orgId, studentId, createdBy,
\* expiresAt and isActive.
C22_PingLeavesSessionsAlone ==
  [][(ppc' # ppc \/ ping' # ping \/ presp' # presp \/ locations' # locations
        \/ lastLocation' # lastLocation)
     => sessions' = sessions]_vars

\* Of two pings for the same session one was accepted and wrote, the other
\* was rejected with 403; the session document is the one both have read.
C22_Witness ==
  \E p \in Pings, q \in Pings :
    /\ ppc[p] = "done" /\ presp[p] = Resp(200, "ok") /\ RowsBy(p) # {}
    /\ ppc[q] = "done" /\ presp[q].status = 403
    /\ sess[p] = sess[q]
    /\ sess[p] \in sessions

(***************************************************************************)
(* Properties of the checkout                                              *)
(***************************************************************************)
\* C23: a checkout request sends at most one request to the provider. While
\* it waits for the provider it has sent exactly one and has answered
\* nothing; once it has ended it has answered exactly once, with a result
\* only after one provider request, and with the error "internal" when its
\* one provider request has failed.
C23_AtMostOneProviderCall ==
  \A c \in Checkouts :
    /\ calls[c] <= 1
    /\ cpc[c] = "idle" => calls[c] = 0 /\ cres[c] = NoResult
    /\ cpc[c] = "calling" => calls[c] = 1 /\ cres[c] = NoResult
    /\ cpc[c] = "done"
       => /\ cres[c] # NoResult
          /\ cres[c].ok => calls[c] = 1
          /\ (~cres[c].ok /\ calls[c] = 1) => cres[c] = HttpsError("internal")
          /\ calls[c] = 0
             => cres[c].code \in {"failed-precondition", "invalid-argument",
                                  "internal"}

\* A checkout whose provider call failed has ended with the error after one
\* provider request, while another one succeeded.
C23_Witness ==
  \E c \in Checkouts, e \in Checkouts :
    /\ cpc[c] = "done" /\ calls[c] = 1 /\ cres[c] = HttpsError("internal")
    /\ cpc[e] = "done" /\ calls[e] = 1 /\ cres[e].ok

\* A URL path that ends in .pdf, in whatever letter case
PdfPath(path) ==
  Len(path) > 0 /\ path[Len(path)] \in {".pdf", ".PDF", ".Pdf"}

\* C24: the kb-offline-v3 cache never holds an entry stored under a URL
\* path ending in .pdf, nor one created from a request with a Range
\* header, and the last same-origin GET for a PDF or with a Range header
\* was answered by the network, not by the cache or the offline page.
C24_NoPdfNoRangeInCache ==
  /\ \A e \in cache : ~PdfPath(e.path) /\ ~e.range
  /\ (freq # NoFetch /\ (PdfPath(freq.path) \/ freq.range))
       => fans.source = "network"

\* The worker is active with the core assets cached, another static asset
\* was stored too, and the last request, a same-origin GET for an
\* upper-case PDF path, was answered by the network with a static type
C24_Witness ==
  /\ swState = "activated"
  /\ \E e \in cache : e.path = <<"/storybooks", ".pdf", "/books", ".json">>
  /\ \E e \in cache : e.path = <<"/api", "/list">>
  /\ freq = [method |-> "GET", sameOrigin |-> TRUE,
             path |-> <<"/storybooks", ".pdf", "/TALE", ".PDF">>,
             range |-> FALSE]
  /\ fans = Answer("network", 200)

\* Delivery d carried a validly signed charge.success event with a
\* reference and the e-mail of a user, and was answered 500
FailedCharge(d) ==
  /\ ValidCharge(d)
  /\ Reference(req[d]) # Null
  /\ MatchingUsers(Email(req[d])) # {}
  /\ pc[d] = "done"
  /\ resp[d].status = 500

Applied(d) ==
  \E u \in MatchingUsers(Email(req[d])) :
    /\ u = FirstUser(Email(req[d]))
    /\ users[u].lastPaymentRef = Reference(req[d])

\* C25: when a delivery of a validly signed charge.success event with
\* reference r and a matching user is answered 500 and the provider still
\* redelivers, the user's subscription is eventually written with
\* lastPaymentRef = r.
C25_FailedDeliveryIsEventuallyApplied ==
  \A d \in Deliveries :
    [](FailedCharge(d) /\ d < NumDeliveries => <>Applied(d))

\* The same for a delivery that failed before it wrote the ledger record:
\* the redelivery finds no record and is processed
FailureBeforeLedgerWriteRecovers ==
  \A d \in Deliveries :
    [](FailedCharge(d) /\ d < NumDeliveries /\ ~ledgerWrote[d]
         => <>Applied(d))

\* Ping p was let through the session gate
Accepted(p) ==
  \/ ppc[p] \in {"add", "set"}
  \/ ppc[p] = "done" /\ presp[p] = Resp(200, "ok")

HasExpiry(s) == s.expiresAt \notin {NullInt, 0, UnreadableTs}

AcceptedNotAfterExpiry ==
  \A p \in Pings :
    Accepted(p) /\ HasExpiry(sess[p]) => checkedAt[p] <= sess[p].expiresAt

\* The history rows of entity e, and the one appended last
RowsOf(e) ==
  { i \in DOMAIN locations :
      <<locations[i].orgId, locations[i].studentId>> = e }

NewestRow(e) == CHOOSE i \in RowsOf(e) : \A j \in RowsOf(e) : j <= i

\* C27: once every ping has completed, each entity's lastLocation snapshot
\* holds the coordinates of the history row that was appended last for it.
C27_SnapshotIsNewestRow ==
  (\A p \in Pings : ppc[p] = "done")
  => \A e \in Students :
       RowsOf(e) # {}
       => /\ lastLocation[e].lat = locations[NewestRow(e)].lat
          /\ lastLocation[e].lng = locations[NewestRow(e)].lng
          /\ lastLocation[e].acc = locations[NewestRow(e)].acc

\* Some session was issued for organisation o and student st with the
\* session id sid and the token tok
IssuedFor(o, st, sid, tok) ==
  \E r \in issued :
    /\ r.orgId = o
    /\ r.studentId = st
    /\ r.sessionId = sid
    /\ Token(r.call) = tok

\* C28: every history row and every snapshot is written under the
\* organisation and student of a session record whose session id and token
\* are the sid and tok of the ping that wrote it.
C28_WritesOnlyUnderMatchingSession ==
  /\ \A i \in DOMAIN locations :
       IssuedFor(locations[i].orgId, locations[i].studentId,
                 ping[locations[i].by].sid, ping[locations[i].by].tok)
  /\ \A e \in Students :
       lastLocation[e] # NoLoc
       => IssuedFor(e[1], e[2], ping[lastLocation[e].by].sid,
                    ping[lastLocation[e].by].tok)

\* Two sessions of different organisations share a session id; the ping
\* presenting that id with the token of the second organisation's session
\* was answered 403 and the ping presenting it with the first one's token
\* wrote a row and the snapshot of the first organisation's student only
C28_Witness ==
  \E a \in sessions, b \in sessions, p \in Pings, q \in Pings :
    /\ a.orgId = "o1" /\ b.orgId = "o2"
    /\ a.sessionId = b.sessionId
    /\ ping[p].sid = a.sessionId /\ ping[p].tok = b.token
    /\ ppc[p] = "done" /\ presp[p] = Resp(403, "bad token")
    /\ ping[q].sid = a.sessionId /\ ping[q].tok = a.token
    /\ ppc[q] = "done" /\ presp[q] = Resp(200, "ok")
    /\ Len(locations) = 1
    /\ locations[1].orgId = "o1"
    /\ lastLocation[<<"o1", a.studentId>>].by = q
    /\ lastLocation[<<"o2", b.studentId>>] = NoLoc

\* The subscription fields of a user record
Subscription(doc) ==
  <<doc.plan, doc.status, doc.lastPaymentRef, doc.subscriptionEndsAt>>

\* Delivery d carried an accepted event and wrote user u with the plan and
\* the reference of that event
AcceptedWriteTo(d, u) ==
  /\ wrote[d]
  /\ userRef[d] = u
  /\ ValidCharge(d)
  /\ updates[d].plan = Classified(req[d]).plan
  /\ updates[d].lastPaymentRef = Reference(req[d])

\* C29: in every state a user's plan, status, lastPaymentRef and
\* subscriptionEndsAt are those of the record as created or all four those
\* written for one single accepted event.
C29_SubscriptionFromOneEvent ==
  \A u \in UserIds :
    \/ Subscription(users[u]) = Subscription(NewUser(users[u].email, NullInt))
    \/ \E d \in Deliveries :
         /\ AcceptedWriteTo(d, u)
         /\ Subscription(users[u]) = Subscription(updates[d])

\* Two events with different references, plans and expiries were both
\* written to the same user, which holds the four fields of one of them
C29_Witness ==
  \E d \in Deliveries, e \in Deliveries, u \in UserIds :
    /\ AcceptedWriteTo(d, u) /\ AcceptedWriteTo(e, u)
    /\ updates[d].lastPaymentRef # updates[e].lastPaymentRef
    /\ updates[d].lastPaymentRef # Null /\ updates[e].lastPaymentRef # Null
    /\ updates[d].plan # updates[e].plan
    /\ updates[d].subscriptionEndsAt # updates[e].subscriptionEndsAt
    /\ Subscription(users[u]) = Subscription(updates[e])
    /\ updates[d].updatedAt > updates[e].updatedAt

\* The plan the webhook resolves when the payload of checkout c comes back
\* in a charge.success event, with its metadata and without
EchoedPlan(c) ==
  Classify(MetaPlan(Plain(cpay[c].metaPlan)), ToNumber(cpay[c].amount)).plan

EchoedPlanByAmount(c) ==
  Classify(MetaPlan(Undefined), ToNumber(cpay[c].amount)).plan

\* The payload of a checkout for one of the four plans is classified as
\* that plan, by its metadata and by its amount alone
CheckoutPayloadClassifiedAsPlan ==
  \A c \in Checkouts :
    (calls[c] > 0 /\ cpay[c].metaPlan \in PlanTags)
    => /\ EchoedPlan(c) = cpay[c].metaPlan
       /\ EchoedPlanByAmount(c) = cpay[c].metaPlan

\* C30: the payload built for a plan of the four is classified by the
\* webhook as that plan, with its metadata and by its amount alone, and a
\* request for a plan outside the four is answered with an error without
\* any provider call.
C30_CheckoutAgreesWithWebhook ==
  /\ CheckoutPayloadClassifiedAsPlan
  /\ \A c \in Checkouts :
       (cpc[c] # "idle" /\ CheckoutPlan(creq[c].plan) \notin PlanTags)
       => /\ calls[c] = 0
          /\ cpc[c] = "done"
          /\ ~cres[c].ok

====
